---- MODULE Spec2Model ----
(***************************************************************************)
(* Model of govarnam's dictionary layer (src/govarnam/dictionary.go):      *)
(* the words / patterns_content tables, the SQL queries issued by          *)
(* searchDictionary, getMoreFromDictionary, getTrailingFromPatternDictionary*)
(* and getFromPatternDictionary, and the token loop of getFromDictionary.  *)
(*                                                                         *)
(* A string is a sequence of characters; a character is a one-element      *)
(* TLA+ string.  Script characters (the values of scheme symbols, e.g.     *)
(* Malayalam letters) are written by their romanised names "ka", "ma".     *)
(* They are outside ASCII, so SQLite's LIKE neither case-folds them nor     *)
(* treats them as wildcards.  Patterns are the user's Latin input and do   *)
(* contain ASCII letters of both cases (govarnam_ml_test.go:103).          *)
(***************************************************************************)
EXTENDS Integers, Sequences, FiniteSets, TLC

VARIABLES
    words,          \* table words: row id -> [word, confidence, learned_on]
    patterns,       \* table patterns_content: set of [pattern, word_id, learned]
    writes,         \* number of Learn/Train calls made since Init
    learnCalls,     \* word -> number of learn(word, 0) calls since Init
    touched,        \* words written by a call other than learn(word, 0)
    call,           \* the last read operation and what it returned
    tokens,         \* getFromDictionary: the argument
    i,              \* getFromDictionary: index of the next token (0-based)
    results,        \* getFromDictionary: in-flight candidates
    foundDictWords, \* getFromDictionary: last found set
    foundPosition,  \* getFromDictionary: longest match position
    pc,             \* getFromDictionary: "idle", "loop" or "done"
    ret,            \* getFromDictionary: the DictionaryResult returned
    trace           \* per processed token: what the iteration did

storeVars == <<words, patterns, writes, learnCalls, touched>>
matchVars == <<tokens, i, results, foundDictWords, foundPosition, pc, ret, trace>>
vars == <<words, patterns, writes, learnCalls, touched, call,
          tokens, i, results, foundDictWords, foundPosition, pc, ret, trace>>

----------------------------------------------------------------------------
(* Bounds of the model *)

MaxCands == 2        \* longest candidate list handed to searchDictionary
MaxPatLen == 1       \* longest pattern trained
MaxWrites == 1       \* Learn/Train calls after Init on a seeded store
MaxLearns == 4       \* Learn/Train calls after Init on the empty store
MaxTokens == 3       \* longest token list handed to getFromDictionary

----------------------------------------------------------------------------
(* Strings *)

ScriptChars == {"ka", "ma"}
LatinChars == {"a", "A"}

RECURSIVE StringsUpTo(_, _)
StringsUpTo(chars, n) ==
    IF n = 0 THEN {<<>>}
    ELSE LET shorter == StringsUpTo(chars, n - 1)
         IN  shorter \cup {Append(s, c) : s \in shorter, c \in chars}

Strings(chars, lo, hi) == {s \in StringsUpTo(chars, hi) : Len(s) >= lo}

IsPrefix(p, s) == Len(p) <= Len(s) /\ SubSeq(s, 1, Len(p)) = p
IsStrictPrefix(p, s) == Len(p) < Len(s) /\ SubSeq(s, 1, Len(p)) = p

\* SQLite's LIKE folds the case of ASCII letters only.
Fold(c) == IF c = "A" THEN "a" ELSE c

\* str LIKE pat: "%" matches any run of characters, "_" exactly one, any
\* other character itself up to ASCII case.
RECURSIVE Like(_, _)
Like(str, pat) ==
    IF pat = <<>> THEN str = <<>>
    ELSE IF Head(pat) = "%"
         THEN \E k \in 0..Len(str) : Like(SubSeq(str, k + 1, Len(str)), Tail(pat))
    ELSE /\ str # <<>>
         /\ Head(pat) = "_" \/ Fold(Head(str)) = Fold(Head(pat))
         /\ Like(Tail(str), Tail(pat))

----------------------------------------------------------------------------
(* The store *)

VARNAM_LEARNT_WORD_MIN_CONFIDENCE == 30

\* confidence integer default 1
DefaultConfidence == 1

IdOf(tbl, w) == CHOOSE k \in 1..Len(tbl) : tbl[k].word = w
HasWord(tbl, w) == \E k \in 1..Len(tbl) : tbl[k].word = w
Rows(tbl) == {[id |-> k, word |-> tbl[k].word, confidence |-> tbl[k].confidence,
               learned_on |-> tbl[k].learned_on] : k \in 1..Len(tbl)}

Max(a, b) == IF a >= b THEN a ELSE b

\* learn(word, baseConfidence) on the words table, at wall-clock time now
LearnWord(tbl, w, base, now) ==
    IF HasWord(tbl, w)
    THEN [tbl EXCEPT ![IdOf(tbl, w)] =
              [@ EXCEPT !.confidence = @ + 1, !.learned_on = now]]
    ELSE Append(tbl, [word |-> w,
                      confidence |-> Max(base, VARNAM_LEARNT_WORD_MIN_CONFIDENCE),
                      learned_on |-> now])

\* train(inputSpelling, outputWord): the output word is written to words (a
\* new one has the default confidence and no learned_on), then the pattern row
TrainWord(tbl, w) ==
    IF HasWord(tbl, w)
    THEN [tbl EXCEPT ![IdOf(tbl, w)] = [@ EXCEPT !.confidence = @ + 1]]
    ELSE Append(tbl, [word |-> w, confidence |-> DefaultConfidence, learned_on |-> 0])

TrainPattern(pts, tbl, p, w) ==
    pts \cup {[pattern |-> p, word_id |-> IdOf(tbl, w), learned |-> 0]}

NoCall == [op |-> "none", arg |-> <<>>, all |-> FALSE, out |-> <<>>]

\* the wall clock at the next write, in seconds: it is positive and does
\* not run backwards
Now == writes + 1

Learn(w, base) ==
    /\ words' = LearnWord(words, w, base, Now)
    /\ writes' = writes + 1
    /\ IF base = 0
       THEN /\ learnCalls' = [learnCalls EXCEPT ![w] = @ + 1]
            /\ touched' = touched
       ELSE /\ touched' = touched \cup {w}
            /\ learnCalls' = learnCalls
    /\ call' = NoCall
    /\ UNCHANGED <<patterns, matchVars>>

Train(p, w) ==
    /\ words' = TrainWord(words, w)
    /\ patterns' = TrainPattern(patterns, words', p, w)
    /\ writes' = writes + 1
    /\ touched' = touched \cup {w}
    /\ call' = NoCall
    /\ UNCHANGED <<learnCalls, matchVars>>

----------------------------------------------------------------------------
(* searchDictionary *)

SearchLimitSix == 5 + 1
SearchLimit == 5

\* vals: each candidate, with "_%" appended when all
SearchVals(cands, all) ==
    [k \in 1..Len(cands) |-> IF all THEN cands[k] \o <<"_", "%">> ELSE cands[k]]

\* The WHERE clause.  AND binds tighter than OR, so with all the condition
\* learned_on > 0 belongs to the last LIKE alone.
SearchWhere(row, cands, all) ==
    LET vals == SearchVals(cands, all)
        n == Len(cands)
    IN  IF all
        THEN \/ \E k \in 1..(n - 1) : Like(row.word, vals[k])
             \/ Like(row.word, vals[n]) /\ row.learned_on > 0
        ELSE \E k \in 1..n : Like(row.word, vals[k])

\* ORDER BY key DESC LIMIT n over rows [key, row]: every order of the rows
\* that is non-increasing in key (rows of equal key come in an order the
\* store chooses), cut at n
RECURSIVE OrderByDescLimit(_, _)
OrderByDescLimit(rows, n) ==
    IF rows = {} \/ n = 0 THEN {<<>>}
    ELSE LET top == {r \in rows : \A q \in rows : q.key <= r.key}
         IN  UNION {{<<r.row>> \o rest : rest \in OrderByDescLimit(rows \ {r}, n - 1)}
                    : r \in top}

\* ORDER BY confidence
ByConfidence(rows) == {[key |-> r.confidence, row |-> r] : r \in rows}

ScanSuggestionSwapped(row) ==
    [Word |-> row.word, Weight |-> row.learned_on, LearnedOn |-> row.confidence]

\* rows.Scan(&item.Word, &item.Weight, &item.LearnedOn)
ScanSuggestion(row) ==
    [Word |-> row.word, Weight |-> row.confidence, LearnedOn |-> row.learned_on]

\* The set of lists searchDictionary(cands, all) can return on table tbl
searchDictionary(tbl, cands, all) ==
    LET matching == {r \in Rows(tbl) : SearchWhere(r, cands, all)}
    IN  {[k \in 1..Len(rs) |-> ScanSuggestion(rs[k])] :
            rs \in OrderByDescLimit(ByConfidence(matching), SearchLimit)}

\* getMoreFromDictionary(sugs): one prefix search per suggestion, in order
RECURSIVE getMoreFromDictionary(_, _)
getMoreFromDictionary(tbl, sugs) ==
    IF sugs = <<>> THEN {<<>>}
    ELSE {<<r>> \o rest : r \in searchDictionary(tbl, <<Head(sugs).Word>>, TRUE),
                          rest \in getMoreFromDictionary(tbl, Tail(sugs))}

Search(cands, all) ==
    /\ \E out \in searchDictionary(words, cands, all) :
          call' = [op |-> "search", arg |-> cands, all |-> all, out |-> out]
    /\ UNCHANGED <<storeVars, matchVars>>

GetMore(sugs) ==
    /\ \E out \in getMoreFromDictionary(words, sugs) :
          call' = [op |-> "more", arg |-> [k \in 1..Len(sugs) |-> sugs[k].Word],
                   all |-> TRUE, out |-> out]
    /\ UNCHANGED <<storeVars, matchVars>>

----------------------------------------------------------------------------
(* Stores a dictionary file can hold when it is opened: each is the result  *)
(* of a sequence of learn and train calls on the empty store.               *)

RECURSIVE ApplyCalls(_, _)
ApplyCalls(st, calls) ==
    IF calls = <<>> THEN st
    ELSE LET c == Head(calls)
             tbl == IF c.op = "learn" THEN LearnWord(st.words, c.w, c.base, 1)
                    ELSE TrainWord(st.words, c.w)
             pts == IF c.op = "learn" THEN st.patterns
                    ELSE TrainPattern(st.patterns, tbl, c.p, c.w)
         IN  ApplyCalls([words |-> tbl, patterns |-> pts], Tail(calls))

EmptyStore == [words |-> <<>>, patterns |-> {}]
L(w) == [op |-> "learn", w |-> w, p |-> <<>>, base |-> 0]
LB(w, base) == [op |-> "learn", w |-> w, p |-> <<>>, base |-> base]
T(p, w) == [op |-> "train", w |-> w, p |-> p, base |-> 0]

\* seven words, five of them learnt, two only trained
SearchSeed ==
    ApplyCalls(EmptyStore,
        << T(<<"a">>, <<"ka", "ka">>),
           L(<<"ka", "ma">>), L(<<"ka", "ma">>),
           L(<<"ka", "ka", "ka">>),
           T(<<"a">>, <<"ka", "ka", "ma">>), T(<<"a">>, <<"ka", "ka", "ma">>),
           L(<<"ka", "ma", "ka">>),
           L(<<"ka", "ma", "ma">>), L(<<"ka", "ma", "ma">>), L(<<"ka", "ma", "ma">>),
           L(<<"ma", "ka">>) >>)

Bases == {0, VARNAM_LEARNT_WORD_MIN_CONFIDENCE + 1}

\* the strings searched for, learnt and trained
Candidates == { <<"ka">>, <<"ka", "ka">> }

RECURSIVE ListsUpTo(_, _)
ListsUpTo(S, n) ==
    IF n = 0 THEN {<<>>}
    ELSE LET shorter == ListsUpTo(S, n - 1)
         IN  shorter \cup {Append(l, x) : l \in shorter, x \in S}

CandidateLists == ListsUpTo(Candidates, MaxCands) \ {<<>>}
AsSuggestion(w) == [Word |-> w, Weight |-> 0, LearnedOn |-> 0]

MatchIdle ==
    /\ tokens = <<>>
    /\ i = 0
    /\ results = <<>>
    /\ foundDictWords = <<>>
    /\ foundPosition = 0
    /\ pc = "idle"
    /\ ret = [sugs |-> <<>>, exactMatch |-> FALSE, longestMatchPosition |-> 0]
    /\ trace = <<>>

InitStore(seeds, universe) ==
    /\ \E st \in seeds : words = st.words /\ patterns = st.patterns
    /\ writes = 0
    /\ learnCalls = [w \in universe |-> 0]
    /\ touched = {}
    /\ call = NoCall

(* Dictionary search over a store that learn and train keep writing *)
InitSearch == InitStore({EmptyStore, SearchSeed}, Candidates) /\ MatchIdle

NextSearch ==
    \/ writes < MaxWrites /\ \E w \in Candidates : Learn(w, 0)
    \/ writes < MaxWrites /\ \E w \in Candidates : Train(<<"a">>, w)
    \/ \E cands \in CandidateLists, all \in BOOLEAN : Search(cands, all)
    \/ \E cands \in CandidateLists :
          GetMore([k \in 1..Len(cands) |-> AsSuggestion(cands[k])])

SpecSearch == InitSearch /\ [][NextSearch]_vars

(* The learn sequence: an empty store, written by learn and train *)
InitLearn == InitStore({EmptyStore}, Candidates) /\ MatchIdle

NextLearn ==
    \/ writes < MaxLearns /\ \E w \in Candidates, b \in Bases : Learn(w, b)
    \/ writes < MaxLearns /\ \E w \in Candidates : Train(<<"a">>, w)
    \/ \E w \in Candidates, all \in BOOLEAN : Search(<<w>>, all)

SpecLearn == InitLearn /\ [][NextLearn]_vars

----------------------------------------------------------------------------
(* The pattern dictionary *)

PatternLimit == 10

\* id IN (SELECT word_id FROM patterns_content WHERE pattern LIKE ?), ? = pattern + "%"
TrailingWhere(row, pts, pattern) ==
    \E pt \in pts : pt.word_id = row.id /\ Like(pt.pattern, pattern \o <<"%">>)

\* item.Weight += VARNAM_LEARNT_WORD_MIN_CONFIDENCE
ScanTrailing(row) ==
    [Word |-> row.word,
     Weight |-> row.confidence + VARNAM_LEARNT_WORD_MIN_CONFIDENCE,
     LearnedOn |-> 0]

getTrailingFromPatternDictionary(tbl, pts, pattern) ==
    LET matching == {r \in Rows(tbl) : TrailingWhere(r, pts, pattern)}
    IN  {[k \in 1..Len(rs) |-> ScanTrailing(rs[k])] :
            rs \in OrderByDescLimit(ByConfidence(matching), PatternLimit)}

ResolveWhereExtensionsOnly(pt, pattern) == Like(pt.pattern, pattern \o <<"%">>)

\* WHERE ? LIKE (pts.pattern || '%') OR pattern LIKE ?, the second ? = pattern + "%"
ResolveWhere(pt, pattern) ==
    \/ Like(pattern, pt.pattern \o <<"%">>)
    \/ Like(pt.pattern, pattern \o <<"%">>)

\* LENGTH(pts.pattern)
PatternLength(pt) == Len(pt.pattern)

\* ORDER BY LENGTH(pts.pattern)
ByPatternLength(pts) == {[key |-> PatternLength(pt), row |-> pt] : pt \in pts}

\* rows.Scan(&item.Length, &item.Sug.Word, &item.Sug.Weight) of the row
\* LENGTH(pts.pattern), word and confidence of the words row with id word_id
ScanPattern(tbl, pt) ==
    [Length |-> PatternLength(pt),
     Sug |-> [Word |-> tbl[pt.word_id].word,
              Weight |-> tbl[pt.word_id].confidence + VARNAM_LEARNT_WORD_MIN_CONFIDENCE,
              LearnedOn |-> 0]]

getFromPatternDictionary(tbl, pts, pattern) ==
    LET matching == {pt \in pts : ResolveWhere(pt, pattern)}
    IN  {[k \in 1..Len(rs) |-> ScanPattern(tbl, rs[k])] :
            rs \in OrderByDescLimit(ByPatternLength(matching), PatternLimit)}

GetTrailing(pattern) ==
    /\ \E out \in getTrailingFromPatternDictionary(words, patterns, pattern) :
          call' = [op |-> "trailing", arg |-> pattern, all |-> FALSE, out |-> out]
    /\ UNCHANGED <<storeVars, matchVars>>

GetFromPattern(pattern) ==
    /\ \E out \in getFromPatternDictionary(words, patterns, pattern) :
          call' = [op |-> "resolve", arg |-> pattern, all |-> FALSE, out |-> out]
    /\ UNCHANGED <<storeVars, matchVars>>

\* the Latin input of k letters "a"
Repeat(k) == [n \in 1..k |-> "a"]

\* A store of ten words: the k-th was learnt with base confidence floor + k
\* and then trained with the input of k + 1 letters
PatternSeedWords ==
    << <<"ka", "ka">>, <<"ka", "ma">>, <<"ma", "ka">>, <<"ma", "ma">>,
       <<"ka", "ka", "ka">>, <<"ka", "ka", "ma">>, <<"ka", "ma", "ka">>,
       <<"ka", "ma", "ma">>, <<"ma", "ka", "ka">>, <<"ma", "ka", "ma">> >>

RECURSIVE PatternSeedCalls(_)
PatternSeedCalls(k) ==
    IF k = 0 THEN <<>>
    ELSE PatternSeedCalls(k - 1)
            \o <<LB(PatternSeedWords[k], VARNAM_LEARNT_WORD_MIN_CONFIDENCE + k),
                 T(Repeat(k + 1), PatternSeedWords[k])>>

PatternSeed == ApplyCalls(EmptyStore, PatternSeedCalls(Len(PatternSeedWords)))

TrainPatterns == Strings(LatinChars, 1, MaxPatLen)
\* what the user may have typed: short inputs, and one longer than every
\* pattern of the seeded store
QueryPatterns == Strings(LatinChars, 1, MaxPatLen + 1) \cup {Repeat(Len(PatternSeedWords) + 2)}

\* the words trained with the patterns
PatternWords == { <<"ka">>, <<"ma">> }

InitPattern == InitStore({EmptyStore, PatternSeed}, PatternWords) /\ MatchIdle

NextPattern ==
    \/ writes < MaxWrites /\ \E w \in PatternWords : Learn(w, 0)
    \/ writes < MaxWrites /\ \E w \in PatternWords, p \in TrainPatterns : Train(p, w)
    \/ \E p \in QueryPatterns : GetTrailing(p)
    \/ \E p \in QueryPatterns : GetFromPattern(p)

SpecPattern == InitPattern /\ [][NextPattern]_vars

----------------------------------------------------------------------------
(* getFromDictionary *)

VARNAM_TOKEN_SYMBOL == "SYMBOL"
VARNAM_TOKEN_CHAR == "CHAR"

\* Suggestion{word, 0, 0}
NewSuggestion(w) == [Word |-> w, Weight |-> 0, LearnedOn |-> 0]

DeadNever(result) == FALSE

\* if result.Weight == -1 { continue }
Dead(result) == result.Weight = -1

\* searchResults[0] of searchDictionary([]string{str}, false), when there is one
SearchFirst(tbl, str) ==
    {out[1] : out \in {o \in searchDictionary(tbl, <<str>>, FALSE) : Len(o) > 0}}

NewTillFromExtended(till, extended, possibility) == extended \o possibility

\* newTill := till + possibility.value1 (extended is results[j].Word by then)
NewTill(till, extended, possibility) == till \o possibility

\* The state of one iteration of the token loop: the in-flight candidates,
\* tempFoundDictWords, and (for the record) the strings searched and the
\* rows the store returned.
IterStart(res) == [results |-> res, temp |-> <<>>, searches |-> <<>>, hits |-> <<>>]

\* for k, possibility := range t.token { if k == 0 { continue } ... }
RECURSIVE OtherPossibilities(_, _, _, _, _, _)
OtherPossibilities(tbl, till, extended, poss, k, st) ==
    IF k > Len(poss) THEN {st}
    ELSE LET newTill == NewTill(till, extended, poss[k])
             found == SearchFirst(tbl, newTill)
             searched == [st EXCEPT !.searches = Append(@, newTill)]
         IN  IF found = {}
             THEN OtherPossibilities(tbl, till, extended, poss, k + 1, searched)
             ELSE UNION {OtherPossibilities(tbl, till, extended, poss, k + 1,
                            [searched EXCEPT !.temp = Append(@, h),
                                             !.hits = Append(@, h),
                                             !.results = Append(@, NewSuggestion(newTill))])
                         : h \in found}

\* for j, result := range results { ... }: n is len(results) when the loop starts
RECURSIVE ExtendResults(_, _, _, _, _)
ExtendResults(tbl, poss, j, n, st) ==
    IF j > n THEN {st}
    ELSE IF Dead(st.results[j]) THEN ExtendResults(tbl, poss, j + 1, n, st)
    ELSE LET till == st.results[j].Word
             extended == till \o poss[1]
             found == SearchFirst(tbl, extended)
             searched == [st EXCEPT !.results[j].Word = extended,
                                    !.searches = Append(@, extended)]
             afterFirst ==
                 IF found = {}
                 THEN {[searched EXCEPT !.results[j].Weight = -1]}
                 ELSE {[searched EXCEPT !.temp = Append(@, h), !.hits = Append(@, h)]
                       : h \in found}
         IN  UNION {UNION {ExtendResults(tbl, poss, j + 1, n, s2)
                           : s2 \in OtherPossibilities(tbl, till, extended, poss, 2, s1)}
                    : s1 \in afterFirst}

\* if i == 0 { for _, possibility := range t.token { ... } }
SeedResults(poss, st) ==
    LET sugs == [k \in 1..Len(poss) |-> NewSuggestion(poss[k])]
    IN  [st EXCEPT !.results = @ \o sugs, !.temp = @ \o sugs]

\* One iteration of for i, t := range tokens, for the token t at index idx
Iteration(tbl, idx, t, res) ==
    IF t.tokenType = VARNAM_TOKEN_SYMBOL
    THEN IF idx = 0
         THEN {SeedResults(t.token, IterStart(res))}
         ELSE ExtendResults(tbl, t.token, 1, Len(res), IterStart(res))
    ELSE {IterStart(res)}

NewFoundAppended(idx, temp, found) ==
    IF idx > 0 /\ Len(temp) > 0 THEN found \o temp ELSE found

\* if i > 0 && len(tempFoundDictWords) > 0 { foundDictWords = tempFoundDictWords }
NewFound(idx, temp, found) == IF idx > 0 /\ Len(temp) > 0 THEN temp ELSE found

\* ... { foundPosition = t.position }
NewPosition(idx, temp, t, position) ==
    IF idx > 0 /\ Len(temp) > 0 THEN t.position ELSE position

Begin(toks) ==
    /\ pc = "idle"
    /\ tokens' = toks
    /\ i' = 0
    /\ results' = <<>>
    /\ foundDictWords' = <<>>
    /\ foundPosition' = 0
    /\ trace' = <<>>
    /\ pc' = "loop"
    /\ UNCHANGED <<storeVars, call, ret>>

ProcessToken ==
    /\ pc = "loop"
    /\ i < Len(tokens)
    /\ LET t == tokens[i + 1]
       IN  \E st \in Iteration(words, i, t, results) :
              /\ results' = st.results
              /\ foundDictWords' = NewFound(i, st.temp, foundDictWords)
              /\ foundPosition' = NewPosition(i, st.temp, t, foundPosition)
              /\ trace' = Append(trace, [results |-> st.results, temp |-> st.temp,
                                         searches |-> st.searches, hits |-> st.hits,
                                         foundPosition |-> foundPosition'])
    /\ i' = i + 1
    /\ UNCHANGED <<storeVars, call, tokens, pc, ret>>

Return ==
    /\ pc = "loop"
    /\ i = Len(tokens)
    /\ ret' = [sugs |-> foundDictWords,
               exactMatch |-> (foundPosition = tokens[Len(tokens)].position),
               longestMatchPosition |-> foundPosition]
    /\ pc' = "done"
    /\ UNCHANGED <<storeVars, call, tokens, i, results, foundDictWords, foundPosition, trace>>

(* Token lists the tokenizer hands over: every token is a SYMBOL with one or *)
(* more possibilities or a pass-through character without any; positions    *)
(* are those of the last character of each token, strictly increasing.      *)

Possibilities == Strings(ScriptChars, 1, 1)
PossibilityLists ==
    {l \in ListsUpTo(Possibilities, Cardinality(Possibilities)) :
        l # <<>> /\ \A a, b \in 1..Len(l) : a # b => l[a] # l[b]}

TokenKinds ==
    {[tokenType |-> VARNAM_TOKEN_SYMBOL, token |-> l] : l \in PossibilityLists}
        \cup {[tokenType |-> VARNAM_TOKEN_CHAR, token |-> <<>>]}

FirstPositions == {0, 1}

TokenLists ==
    {[k \in 1..Len(l) |-> [tokenType |-> l[k].tokenType, token |-> l[k].token,
                           position |-> first + (k - 1)]]
        : l \in ListsUpTo(TokenKinds, MaxTokens) \ {<<>>}, first \in FirstPositions}

\* the stores the matcher is run on: every subset of these words, each learnt
MatchWords ==
    { <<"ka", "ka">>, <<"ka", "ma">>,
      <<"ka", "ka", "ka">>, <<"ka", "ka", "ma">> }

RECURSIVE LearnAll(_, _)
LearnAll(st, ws) ==
    IF ws = {} THEN st
    ELSE LET w == CHOOSE x \in ws : TRUE
         IN  LearnAll(ApplyCalls(st, <<L(w)>>), ws \ {w})

MatchSeeds == {LearnAll(EmptyStore, ws) : ws \in SUBSET MatchWords}

InitMatch == InitStore(MatchSeeds, {}) /\ MatchIdle

NextMatch ==
    \/ \E toks \in TokenLists : Begin(toks)
    \/ ProcessToken
    \/ Return

SpecMatch == InitMatch /\ [][NextMatch]_vars

----------------------------------------------------------------------------
(* Claims on searchDictionary and the learn sequence *)

InOut(out, w) == \E k \in 1..Len(out) : out[k].Word = w
NonIncreasing(out) == \A k \in 1..(Len(out) - 1) : out[k].Weight >= out[k + 1].Weight

\* The documented matching condition of search(candidates, prefixMode)
Documented(row, cands, all) ==
    IF all
    THEN row.learned_on > 0 /\ \E k \in 1..Len(cands) : IsStrictPrefix(cands[k], row.word)
    ELSE \E k \in 1..Len(cands) : row.word = cands[k]

\* C1: searchDictionary(candidates, all = true) returns only rows that have
\* learned_on > 0 and have one of the candidates as a strict prefix, for a
\* candidate list of any length.
C1_PrefixSearchOnlyLearnt ==
    (call.op = "search" /\ call.all) =>
        \A k \in 1..Len(call.out) :
            /\ call.out[k].LearnedOn > 0
            /\ \E c \in 1..Len(call.arg) : IsStrictPrefix(call.arg[c], call.out[k].Word)

\* C4: searchDictionary, in both modes, returns at most 5 rows of the store,
\* in non-increasing order of confidence, and no matching row left out of
\* the result has a confidence strictly greater than that of a returned row.
C4_TopFiveByConfidence ==
    call.op = "search" =>
        /\ Len(call.out) <= 5
        /\ NonIncreasing(call.out)
        /\ \A k \in 1..Len(call.out) : \E r \in Rows(words) : call.out[k] = ScanSuggestion(r)
        /\ \A r \in Rows(words) :
              (Documented(r, call.arg, call.all) /\ ~InOut(call.out, r.word)) =>
                  \A k \in 1..Len(call.out) : r.confidence <= call.out[k].Weight

C4_Witness ==
    /\ call.op = "search"
    /\ Len(call.out) = 5
    /\ call.out[1].Weight > call.out[5].Weight
    /\ \E r \in Rows(words) : Documented(r, call.arg, call.all) /\ ~InOut(call.out, r.word)

\* the words whose only writes since the empty store are n >= 1 learn(w, 0)
LearntOnly == {w \in DOMAIN learnCalls : learnCalls[w] >= 1 /\ w \notin touched}
Expected(w) == VARNAM_LEARNT_WORD_MIN_CONFIDENCE + (learnCalls[w] - 1)

C5_Stored ==
    \A w \in LearntOnly :
        /\ HasWord(words, w)
        /\ words[IdOf(words, w)].confidence = Expected(w)
        /\ (call.op = "search" /\ ~call.all /\ call.arg = <<w>>) =>
              call.out = <<[Word |-> w, Weight |-> Expected(w),
                            LearnedOn |-> words[IdOf(words, w)].learned_on]>>

C5_Step ==
    \A w \in DOMAIN learnCalls :
        (learnCalls'[w] = learnCalls[w] + 1 /\ HasWord(words, w)) =>
            /\ Len(words') = Len(words)
            /\ \A k \in 1..Len(words) :
                  /\ words'[k].word = words[k].word
                  /\ words'[k].confidence =
                        words[k].confidence + (IF words[k].word = w THEN 1 ELSE 0)

\* C5: from a store without w, after n >= 1 calls learn(w, 0) interleaved
\* with learn calls for other words, the stored confidence of w is the
\* minimum learnt-word floor + (n - 1); each relearn of w raises it by
\* exactly 1 and changes no other word's confidence; a later exact
\* searchDictionary([w], false) returns w with that weight.
C5_LearnSequence == []C5_Stored /\ [][C5_Step]_vars

C5_Witness ==
    /\ call.op = "search" /\ ~call.all
    /\ \E w \in LearntOnly :
          /\ call.arg = <<w>>
          /\ learnCalls[w] >= 2
          /\ \E v \in LearntOnly : v # w

----------------------------------------------------------------------------
(* Claims on getFromDictionary *)

IsSymbol(k) == tokens[k].tokenType = VARNAM_TOKEN_SYMBOL
Pruned(result) == result.Weight = -1
\* the tokens (1-based) whose iteration recorded a row returned by the store
HitTokens == {k \in 1..Len(trace) : trace[k].hits # <<>>}
MaxOf(S) == CHOOSE x \in S : \A y \in S : y <= x

\* C2: getFromDictionary returns exactMatch = true if and only if the
\* returned suggestion list was found in the store while processing the last
\* token; it is never true when no token produced a store hit.
C2_ExactMatchIffLastTokenHit ==
    pc = "done" => (ret.exactMatch <=> Len(tokens) \in HitTokens)

\* the spellings of the SYMBOL tokens among the first m tokens: one
\* possibility per SYMBOL token, in order
RECURSIVE Spellings(_)
Spellings(m) ==
    IF m = 0 THEN {<<>>}
    ELSE IF IsSymbol(m)
         THEN {Append(sp, tokens[m].token[k]) : sp \in Spellings(m - 1),
                                                k \in 1..Len(tokens[m].token)}
         ELSE Spellings(m - 1)

RECURSIVE Concat(_)
Concat(parts) == IF parts = <<>> THEN <<>> ELSE Head(parts) \o Concat(Tail(parts))

\* w is spelled by the SYMBOL tokens up to one of the tokens processed so
\* far, and cut at every SYMBOL token boundary from the second on it is a
\* word of the store
BuiltOnStoreWords(w) ==
    \E m \in 1..Len(trace) : \E sp \in Spellings(m) :
        /\ Concat(sp) = w
        /\ \A q \in 2..Len(sp) : HasWord(words, Concat(SubSeq(sp, 1, q)))

C3_NoDeadExtension ==
    \A k \in 1..Len(foundDictWords) : BuiltOnStoreWords(foundDictWords[k].Word)

\* an iteration over a SYMBOL token at index >= 1: every live candidate's
\* extension by a possibility other than the first that is in the store is
\* found at this position and is a live candidate afterwards
C3_SiblingsKept ==
    (pc = "loop" /\ i' = i + 1 /\ i >= 1 /\ IsSymbol(i + 1)) =>
        \A j \in 1..Len(results) :
            ~Pruned(results[j]) =>
                \A k \in 2..Len(tokens[i + 1].token) :
                    LET w == results[j].Word \o tokens[i + 1].token[k]
                    IN  HasWord(words, w) =>
                           /\ \E h \in 1..Len(foundDictWords') : foundDictWords'[h].Word = w
                           /\ foundPosition' = tokens[i + 1].position
                           /\ \E c \in 1..Len(results') :
                                 results'[c].Word = w /\ ~Pruned(results'[c])

\* C3: no suggestion returned for a token is built by extending a candidate
\* whose extension was not a word of the store (every returned word, cut at
\* each SYMBOL token boundary from the second token on, is a word of the
\* store), and pruning a candidate does not suppress its siblings.
C3_BranchPruning == []C3_NoDeadExtension /\ [][C3_SiblingsKept]_vars

\* a candidate dies on the first possibility of the third token while its
\* extension by the second possibility is found
C3_Witness ==
    /\ pc = "done" /\ Len(tokens) = 3
    /\ Len(ret.sugs) = 1 /\ Len(ret.sugs[1].Word) = 3
    /\ ret.exactMatch
    /\ \E j \in 1..Len(results) : Pruned(results[j]) /\ Len(results[j].Word) = 3

\* C8: the in-flight candidates are seeded from the first SYMBOL token of
\* the list, wherever it occurs: one candidate per possibility of that token.
C8_SeedsFromFirstSymbol ==
    \A k \in 1..Len(trace) :
        (IsSymbol(k) /\ \A m \in 1..(k - 1) : ~IsSymbol(m)) =>
            trace[k].results =
                [p \in 1..Len(tokens[k].token) |-> NewSuggestion(tokens[k].token[p])]

\* C9: the returned list is exactly the store hits of the last token at
\* which an extension was found, longestMatchPosition is that token's
\* position; with no store hit the list is empty and the position is 0.
C9_LongestMatch ==
    pc = "done" =>
        IF HitTokens = {}
        THEN ret.sugs = <<>> /\ ret.longestMatchPosition = 0
        ELSE /\ ret.sugs = trace[MaxOf(HitTokens)].hits
             /\ ret.longestMatchPosition = tokens[MaxOf(HitTokens)].position

C9_Witness ==
    /\ pc = "done"
    /\ HitTokens = {2, 3}
    /\ Len(ret.sugs) >= 2
    /\ Len(trace[2].hits) >= 2

\* the first SYMBOL token at index >= 1 whose iteration found nothing
Misses == {k \in 2..Len(trace) : IsSymbol(k) /\ trace[k].hits = <<>>}

\* C10: a dead candidate never becomes live again; once a SYMBOL token at
\* index >= 1 ends with no store hit every candidate is dead, no later token
\* searches the store or records a found result, the tokens with hits are an
\* unbroken run of the SYMBOL tokens from the second token on, and
\* longestMatchPosition no longer changes.
C10_DeadStaysDead ==
    /\ \A a, b \in 1..Len(trace) :
          a < b => \A j \in 1..Len(trace[a].results) :
                      Pruned(trace[a].results[j]) => Pruned(trace[b].results[j])
    /\ \A a \in Misses :
          /\ \A j \in 1..Len(trace[a].results) : Pruned(trace[a].results[j])
          /\ \A b \in (a + 1)..Len(trace) :
                /\ trace[b].searches = <<>>
                /\ trace[b].hits = <<>>
                /\ trace[b].foundPosition = trace[a].foundPosition
    /\ \A k \in HitTokens :
          \A m \in 2..k : IsSymbol(m) => m \in HitTokens

C10_Witness ==
    /\ pc = "done" /\ Len(tokens) = 3
    /\ HitTokens = {2}
    /\ Misses = {3}
    /\ Len(results) >= 2

----------------------------------------------------------------------------
(* Claims on the pattern dictionary *)

\* the entry of the pattern row pt in the result of getFromPatternDictionary
HasEntry(out, pt) ==
    \E k \in 1..Len(out) :
        out[k].Sug.Word = words[pt.word_id].word /\ out[k].Length = Len(pt.pattern)

\* C6 as stated: in any store reached after train(s, X), whatever else it
\* holds, getTrailingFromPatternDictionary(s) includes X and
\* getFromPatternDictionary(s + t), t non-empty, includes an entry for X
\* whose Length is the length of s.
C6_RoundTripAlways ==
    \A pt \in patterns :
        /\ (call.op = "trailing" /\ call.arg = pt.pattern) =>
              InOut(call.out, words[pt.word_id].word)
        /\ (call.op = "resolve" /\ IsStrictPrefix(pt.pattern, call.arg)) =>
              HasEntry(call.out, pt)

\* C6 amended: the same, unless the result already holds 10 entries each
\* ranked at least as high (confidence, resp. stored pattern length) as X's.
C6_RoundTripUnlessFull ==
    \A pt \in patterns :
        /\ (call.op = "trailing" /\ call.arg = pt.pattern) =>
              \/ InOut(call.out, words[pt.word_id].word)
              \/ /\ Len(call.out) = 10
                 /\ \A k \in 1..10 :
                       call.out[k].Weight >=
                          words[pt.word_id].confidence + VARNAM_LEARNT_WORD_MIN_CONFIDENCE
        /\ (call.op = "resolve" /\ IsStrictPrefix(pt.pattern, call.arg)) =>
              \/ HasEntry(call.out, pt)
              \/ /\ Len(call.out) = 10
                 /\ \A k \in 1..10 : call.out[k].Length >= Len(pt.pattern)

C6_Witness ==
    /\ call.op = "resolve"
    /\ writes > 0
    /\ \E pt \in patterns :
          /\ words[pt.word_id].word \in PatternWords
          /\ IsStrictPrefix(pt.pattern, call.arg)
          /\ HasEntry(call.out, pt)

\* C7: getFromPatternDictionary(pattern) returns at most 10 entries; each
\* comes from a stored pattern row whose pattern is a prefix of the given
\* pattern or has it as a prefix, and carries the word's stored confidence
\* plus the minimum learnt-word floor; entries are in non-increasing order of
\* the stored pattern's length, and no matching row left out has a stored
\* pattern strictly longer than that of a returned entry.
C7_ResolveByPrefix ==
    call.op = "resolve" =>
        LET prefixRows == {pt \in patterns :
                              IsPrefix(pt.pattern, call.arg) \/ IsPrefix(call.arg, pt.pattern)}
        IN  /\ Len(call.out) <= 10
            /\ \A k \in 1..Len(call.out) :
                  \E pt \in prefixRows :
                      /\ call.out[k].Length = Len(pt.pattern)
                      /\ call.out[k].Sug.Word = words[pt.word_id].word
                      /\ call.out[k].Sug.Weight =
                            words[pt.word_id].confidence + VARNAM_LEARNT_WORD_MIN_CONFIDENCE
            /\ \A k \in 1..(Len(call.out) - 1) : call.out[k].Length >= call.out[k + 1].Length
            /\ \A pt \in prefixRows :
                  ~HasEntry(call.out, pt) =>
                      \A k \in 1..Len(call.out) : Len(pt.pattern) <= call.out[k].Length

====
